---------------------------- MODULE Spec2Model ----------------------------
(***************************************************************************)
(* A model of the FIFA market-insights dashboard (src/app.py).             *)
(*                                                                         *)
(* The Streamlit script is re-run top to bottom on every user interaction. *)
(* The model has one position per statement of the script that talks to    *)
(* the warehouse, the two memoized schema probes, the session's pred_val,  *)
(* and the query builders as operators over a small table.                 *)
(***************************************************************************)
EXTENDS Integers, Sequences, FiniteSets, TLC

VARIABLES
    \* ---- schema prober, resolve_table_ids as a function of the dataset ----
    ds_tables,      \* table ids the dataset holds (as the warehouse spells them)
    rt_out,         \* what resolve_table_ids did with them
    \* ---- the bucket query over a table's value_eur column ----
    bk_rows,        \* the value_eur of each row of the table (NULL allowed)
    df_buckets,     \* the rows the bucket query returned
    \* ---- the Top-10 grouping query over a table ----
    top_cols,       \* available_cols, as list_columns returns them
    top_table,      \* the table: row kinds, each with the number of rows of it
    top_tie,        \* how the warehouse orders groups the ORDER BY leaves tied
    df_top,         \* the query the script built and the rows it returned
    \* ---- the warehouse and the process-wide memo of the two schema probes ----
    wh_tables,      \* table ids of the dataset
    wh_schema,      \* column names of the players table, as the warehouse spells them
    wh_faults,      \* the remote calls that can fail for reasons of the warehouse's own
    wh_data,        \* what ML.PREDICT can answer, and whether queries can come back empty
    now,            \* the clock, in seconds
    cache_tables,   \* st.cache_data entry of resolve_table_ids(PROJECT, DATASET)
    cache_columns,  \* st.cache_data entry of list_columns()
    \* ---- one run of the script per session and interaction ----
    pc,             \* where each session's script run stands; "idle" between runs
    clicked,        \* whether the run was triggered by a click on 'Predict value'
    button_on_page, \* whether the page the user sees holds the button
    pred_val,       \* st.session_state.pred_val: Absent, None or a value
    last_attempt,   \* the session's most recent prediction attempt and its value
    TABLE,          \* the run's resolved table
    available_cols, \* the run's list_columns() result
    frames,         \* df_top and df_scatter of the run: "none", "empty", "rows"
    x_col,          \* the run's scatter score column
    calls,          \* the remote calls the run has made, in order
    shown,          \* the elements the run has put on the page
    metric,         \* the value in the 'Predicted Market Value' metric, None without one
    failed          \* the statement whose exception ended the run, and why

rtVars == <<ds_tables, rt_out>>
bkVars == <<bk_rows, df_buckets>>
topVars == <<top_cols, top_table, top_tie, df_top>>
whVars  == <<wh_tables, wh_schema, wh_faults, wh_data, now, cache_tables, cache_columns>>
runVars == <<pc, clicked, button_on_page, pred_val, last_attempt, TABLE, available_cols,
             frames, x_col, calls, shown, metric, failed>>
appVars == <<whVars, runVars>>
queryVars == <<rtVars, bkVars, topVars>>
vars   == <<rtVars, bkVars, topVars, appVars>>

(***************************************************************************)
(* Names.  str.lower() is modelled on the finite pool of names the model   *)
(* uses; sorted() by the lexicographic order of the lower-cased pool.      *)
(***************************************************************************)
PROJECT == "big-query-fifa"
DATASET == "fifa_ds"

TableIdPool == {"players", "Players", "player", "PLAYER", "teams", "Clubs", "player_stats"}

Lower(s) ==
    CASE s = "Players"     -> "players"
      [] s = "PLAYER"      -> "player"
      [] s = "Clubs"       -> "clubs"
      [] s = "Overall"     -> "overall"
      [] s = "Nationality" -> "nationality"
      [] s = "Value_EUR"   -> "value_eur"
      [] OTHER             -> s

\* Python's string order on the lower-cased table ids of the pool.
LexOrder == <<"clubs", "player", "player_stats", "players", "teams">>

LexRank(s) == CHOOSE i \in 1..Len(LexOrder) : LexOrder[i] = s

RECURSIVE SortedNames(_)
SortedNames(S) ==
    IF S = {} THEN <<>>
    ELSE LET m == CHOOSE x \in S : \A y \in S : LexRank(x) <= LexRank(y)
         IN  <<m>> \o SortedNames(S \ {m})

(***************************************************************************)
(* The bucket query, sql_buckets (src/app.py 177-203), as the warehouse    *)
(* evaluates it: WHERE, the CASE (first branch that matches), GROUP BY     *)
(* with its row count, ORDER BY the rank CASE.  Labels are in ASCII.      *)
(***************************************************************************)
\* A column value is NULL or <<n>>, the one-tuple of a number.
NULL == <<>>
Num(x) == x[1]

T1M  == 1000000
T5M  == 5000000
T10M == 10000000
T20M == 20000000
T50M == 50000000

\* WHEN value_eur < t THEN label, in the order written; the ELSE label last.
BucketWhens == << [lt |-> T1M,  label |-> "<1M"],
                  [lt |-> T5M,  label |-> "1M-5M"],
                  [lt |-> T10M, label |-> "5M-10M"],
                  [lt |-> T20M, label |-> "10M-20M"],
                  [lt |-> T50M, label |-> "20M-50M"] >>
BucketElse == ">=50M"

RECURSIVE FirstWhenLeq(_, _)
FirstWhenLeq(v, i) ==
    IF i > Len(BucketWhens) THEN BucketElse
    ELSE IF v <= BucketWhens[i].lt THEN BucketWhens[i].label
    ELSE FirstWhenLeq(v, i + 1)

RECURSIVE FirstWhen(_, _)
FirstWhen(v, i) ==
    IF i > Len(BucketWhens) THEN BucketElse
    ELSE IF v < BucketWhens[i].lt THEN BucketWhens[i].label
    ELSE FirstWhen(v, i + 1)

value_bucket_leq(v) == FirstWhenLeq(v, 1)

value_bucket(v) == FirstWhen(v, 1)

\* ORDER BY CASE value_bucket WHEN '<1M' THEN 1 ... ELSE 6 END
BucketOrderRank(b) ==
    CASE b = "<1M"     -> 1
      [] b = "1M-5M"   -> 2
      [] b = "5M-10M"  -> 3
      [] b = "10M-20M" -> 4
      [] b = "20M-50M" -> 5
      [] OTHER         -> 6

RECURSIVE SortByRank(_)
SortByRank(G) ==
    IF G = {} THEN <<>>
    ELSE LET m == CHOOSE x \in G :
                    \A y \in G : BucketOrderRank(x.value_bucket)
                                     <= BucketOrderRank(y.value_bucket)
         IN  <<m>> \o SortByRank(G \ {m})

sql_buckets(rows) ==
    LET kept   == {i \in 1..Len(rows) : rows[i] # NULL}
        labels == {value_bucket(Num(rows[i])) : i \in kept}
        groups == { [value_bucket |-> b,
                     player_count |->
                         Cardinality({i \in kept : value_bucket(Num(rows[i])) = b})]
                    : b \in labels }
    IN  SortByRank(groups)

\* value_eur of the rows the model draws: every threshold, its two neighbours, NULL.
ValuePool == {NULL} \cup
    { <<v>> : v \in {0, T1M - 1, T1M, T5M - 1, T5M, T10M - 1, T10M,
                     T20M - 1, T20M, T50M - 1, T50M, T50M + 1} }

MaxBucketRows == 3

RowSeqs(n) == UNION { [1..k -> ValuePool] : k \in 0..n }

NotRun == [status |-> "not run", rows |-> <<>>]
Ran(rows) == [status |-> "ok", rows |-> rows]

BkIdle == bk_rows = <<>> /\ df_buckets = NotRun

(***************************************************************************)
(* first_existing (src/app.py 68-72) and the Top-10 query (206-277).       *)
(* A query is kept as its clauses; the warehouse evaluates them over the   *)
(* table.  AVG is kept exact, as the pair of the sum and the row count.    *)
(***************************************************************************)
RECURSIVE LastExistingFrom(_, _, _)
LastExistingFrom(candidates, available, i) ==
    IF i < 1 THEN "None"
    ELSE IF Lower(candidates[i]) \in available THEN candidates[i]
    ELSE LastExistingFrom(candidates, available, i - 1)

LastExisting(candidates, available) ==
    LastExistingFrom(candidates, available, Len(candidates))

RECURSIVE FirstExistingFrom(_, _, _)
FirstExistingFrom(candidates, available, i) ==
    IF i > Len(candidates) THEN "None"
    ELSE IF Lower(candidates[i]) \in available THEN candidates[i]
    ELSE FirstExistingFrom(candidates, available, i + 1)

first_existing(candidates, available) == FirstExistingFrom(candidates, available, 1)

MinNationality == 30
MinClubLeague  == 20
TopLimit       == 10

NationalityCandidates == <<"nationality_name", "nationality">>
ClubCandidates        == <<"club_name", "league_name">>

sql_top_age ==
    [kind |-> "age", grp |-> "age_group", uses |-> {"age", "value_eur"},
     having |-> 0, order_by |-> "age rank", limit |-> TopLimit,
     label |-> "Top age groups by average value"]

sql_top_dim(dim, min, label) ==
    [kind |-> "dim", grp |-> dim, uses |-> {dim, "value_eur"},
     having |-> min, order_by |-> "avg_value DESC", limit |-> TopLimit,
     label |-> label]

sql_top(cols) ==
    LET dim1 == first_existing(NationalityCandidates, cols)
        dim2 == first_existing(ClubCandidates, cols)
    IN  IF dim1 # "None"
        THEN sql_top_dim(dim1, MinNationality, "Top 10 nationalities by average value")
        ELSE IF dim2 # "None"
        THEN sql_top_dim(dim2, MinClubLeague, "Top 10 by average value - grouped by dim")
        ELSE sql_top_age

\* CASE WHEN age IS NULL ... ELSE '32+' END
age_group(age) ==
    IF age = NULL THEN "Unknown"
    ELSE IF Num(age) < 20 THEN "<20"
    ELSE IF Num(age) >= 20 /\ Num(age) <= 22 THEN "20-22"
    ELSE IF Num(age) >= 23 /\ Num(age) <= 25 THEN "23-25"
    ELSE IF Num(age) >= 26 /\ Num(age) <= 28 THEN "26-28"
    ELSE IF Num(age) >= 29 /\ Num(age) <= 31 THEN "29-31"
    ELSE "32+"

\* ORDER BY CASE age_group WHEN '<20' THEN 1 ... ELSE 6 END
AgeOrderRank(g) ==
    CASE g = "<20"   -> 1
      [] g = "20-22" -> 2
      [] g = "23-25" -> 3
      [] g = "26-28" -> 4
      [] g = "29-31" -> 5
      [] OTHER       -> 6

\* COUNT and SUM(value_eur) over the row kinds I, each standing for n rows.
RECURSIVE CountRows(_, _)
CountRows(I, table) ==
    IF I = {} THEN 0
    ELSE LET i == CHOOSE x \in I : TRUE
         IN  table[i].n + CountRows(I \ {i}, table)

RECURSIVE SumValues(_, _)
SumValues(I, table) ==
    IF I = {} THEN 0
    ELSE LET i == CHOOSE x \in I : TRUE
         IN  table[i].n * Num(table[i].value_eur) + SumValues(I \ {i}, table)

\* a has the larger average
AvgGreater(a, b) == a.sum_value * b.num_players > b.sum_value * a.num_players
AvgEqual(a, b)   == a.sum_value * b.num_players = b.sum_value * a.num_players

\* The position of a group among those the ORDER BY leaves tied.
TieBefore(a, b, tie) == IF tie = "asc" THEN a.id < b.id ELSE a.id > b.id

OrderedBeforeAvgAsc(q, a, b, tie) ==
    IF q.order_by = "avg_value DESC"
    THEN AvgGreater(b, a) \/ (AvgEqual(a, b) /\ TieBefore(a, b, tie))
    ELSE AgeOrderRank(a.grp) < AgeOrderRank(b.grp)
         \/ (AgeOrderRank(a.grp) = AgeOrderRank(b.grp) /\ TieBefore(a, b, tie))

\* a comes before b under the query's ORDER BY
OrderedBefore(q, a, b, tie) ==
    IF q.order_by = "avg_value DESC"
    THEN AvgGreater(a, b) \/ (AvgEqual(a, b) /\ TieBefore(a, b, tie))
    ELSE AgeOrderRank(a.grp) < AgeOrderRank(b.grp)
         \/ (AgeOrderRank(a.grp) = AgeOrderRank(b.grp) /\ TieBefore(a, b, tie))

RECURSIVE OrderBy(_, _, _)
OrderBy(q, G, tie) ==
    IF G = {} THEN <<>>
    ELSE LET m == CHOOSE x \in G : \A y \in G \ {x} : OrderedBefore(q, x, y, tie)
         IN  <<m>> \o OrderBy(q, G \ {m}, tie)

Limit(rows, n) == IF Len(rows) <= n THEN rows ELSE SubSeq(rows, 1, n)

\* The value of the grouping expression on a row kind, and its place among ties.
GroupOf(q, r) ==
    IF q.kind = "dim" THEN [grp |-> <<q.grp, r.key[1]>>, id |-> r.key[1]]
    ELSE [grp |-> age_group(r.age),
          id  |-> IF r.age = NULL THEN 0 ELSE AgeOrderRank(age_group(r.age))]

\* The warehouse's evaluation of the query: an error when it names a column the
\* table lacks, else WHERE, GROUP BY, HAVING, ORDER BY, LIMIT.
RunTopQuery(q, cols, table, tie) ==
    IF ~(q.uses \subseteq cols) THEN [status |-> "error", sql |-> q, rows |-> <<>>]
    ELSE
    LET kept   == {i \in 1..Len(table) :
                      /\ table[i].value_eur # NULL
                      /\ (q.kind = "dim" => table[i].key # NULL)}
        keys   == {GroupOf(q, table[i]) : i \in kept}
        groups == { [grp |-> k.grp, id |-> k.id,
                     sum_value   |-> SumValues({i \in kept : GroupOf(q, table[i]) = k},
                                               table),
                     num_players |-> CountRows({i \in kept : GroupOf(q, table[i]) = k},
                                               table)]
                    : k \in keys }
        having == {g \in groups : g.num_players >= q.having}
    IN  [status |-> "ok", sql |-> q,
         rows |-> Limit(OrderBy(q, having, tie), q.limit)]

(***************************************************************************)
(* The tables the Top-10 query is run over: k row kinds drawn by a         *)
(* pattern.  Pattern 1 has 30 rows of each kind, pattern 2 and 4 counts on *)
(* both sides of the two HAVING thresholds and NULLs, pattern 3 two kinds  *)
(* per group; values are a permutation, so no order of the keys or of the  *)
(* ages is the order of the averages, and two kinds tie once k exceeds 11. *)
(***************************************************************************)
MaxTopRows == 12

AgeCycle == << NULL, <<17>>, <<19>>, <<20>>, <<22>>, <<23>>, <<25>>, <<26>>,
               <<28>>, <<29>>, <<31>>, <<32>>, <<40>> >>

TopRow(i, pat) ==
    [key |-> IF pat = 4 /\ i = 3 THEN NULL
             ELSE IF pat = 3 THEN <<(i + 1) \div 2>> ELSE <<i>>,
     age |-> AgeCycle[(i % Len(AgeCycle)) + 1],
     value_eur |-> IF pat = 2 /\ i % 5 = 0 THEN NULL
                   ELSE <<(((i * 7 + pat * 3) % 11) + 1) * 1000>>,
     n |-> CASE pat = 1 -> 30
             [] pat = 2 -> <<19, 20, 29, 30>>[(i % 4) + 1]
             [] pat = 3 -> <<15, 16>>[(i % 2) + 1]
             [] OTHER   -> <<20, 31>>[(i % 2) + 1]]

TopTables == { [i \in 1..k |-> TopRow(i, pat)] : k \in 0..MaxTopRows, pat \in 1..4 }

TopColumnPool == {"nationality_name", "nationality", "club_name", "league_name",
                  "age", "value_eur"}

TopNotRun == [status |-> "not run", sql |-> sql_top_age, rows |-> <<>>]

TopIdle == top_cols = {} /\ top_table = <<>> /\ top_tie = "asc" /\ df_top = TopNotRun

(***************************************************************************)
(* resolve_table_ids (src/app.py 27-49), without its cache.                *)
(***************************************************************************)
Candidates == <<"players", "player">>

ChosenLastMatch(found) ==
    IF Candidates[2] \in found THEN Candidates[2]
    ELSE IF Candidates[1] \in found THEN Candidates[1]
    ELSE "None"

\* for cand in ("players", "player"): if cand in found: chosen = cand; break
Chosen(found) ==
    IF Candidates[1] \in found THEN Candidates[1]
    ELSE IF Candidates[2] \in found THEN Candidates[2]
    ELSE "None"

FoundIds(tables) == {Lower(t) : t \in tables}

resolve_table_ids(tables) ==
    LET found  == FoundIds(tables)
        chosen == Chosen(found)
    IN  IF chosen = "None"
        THEN [status |-> "error", found |-> SortedNames(found),
              plain |-> <<>>, ticked |-> <<>>, short |-> "None"]
        ELSE [status |-> "ok", found |-> <<>>,
              plain  |-> <<PROJECT, DATASET, chosen>>,
              ticked |-> <<"BACKTICK", PROJECT, DATASET, chosen, "BACKTICK">>,
              short  |-> chosen]

NoResult == [status |-> "none", found |-> <<>>, plain |-> <<>>, ticked |-> <<>>,
             short |-> "None"]

RtIdle == ds_tables = {} /\ rt_out = NoResult

(***************************************************************************)
(* The script (src/app.py), one run per interaction of a session.          *)
(*                                                                         *)
(* The warehouse is outside the program: a remote call fails when it names *)
(* a table or a column the warehouse lacks, and may fail for reasons of    *)
(* its own ("transient").  An exception nothing catches ends the run;      *)
(* what the run had put on the page stays, with the exception.             *)
(***************************************************************************)
Sessions == {"s1", "s2"}

\* A Python value that is missing, None or a number.
Absent   == [is |-> "absent", v |-> 0]
None     == [is |-> "None", v |-> 0]
Value(v) == [is |-> "value", v |-> v]

NoAttempt   == [is |-> "none", v |-> 0]
FailedAttempt == [is |-> "fail", v |-> 0]
OkAttempt(v)  == [is |-> "ok", v |-> v]

\* ttl of the two st.cache_data memos, in seconds
ResolveTtl == 600
ColumnsTtl == 300

NoEntry == [valid |-> FALSE, value |-> <<>>, at |-> 0]

\* A memo entry serves a call while it is younger than the ttl.
FreshAlways(entry, ttl) == entry.valid

Fresh(entry, ttl) == entry.valid /\ now - entry.at < ttl

Stored(value) == [valid |-> TRUE, value |-> <<value>>, at |-> now]

\* {c.name.lower() for c in tbl.schema}
list_columns_of(schema) == {Lower(c) : c \in schema}

\* The statements of the script that can end a run, in the order it reaches them.
ScriptOrder == <<"list_tables", "predict", "get_table", "buckets", "top", "scatter">>

SchemaProbes == {"list_tables", "get_table"}
Queries == {"predict", "buckets", "top", "scatter"}
AnalyticsQueries == {"buckets", "top", "scatter"}

NoFailure == [at |-> "none", why |-> "none"]

PcAfterSwallowed(at) == "buckets"

\* Nothing catches an exception of resolve_table_ids, list_columns or run_df.
PcAfterUncaught(at) == "idle"

\* An uncaught exception at statement `at`: the run ends, the page shows it.
Abort(s, at, why) ==
    /\ pc' = [pc EXCEPT ![s] = PcAfterUncaught(at)]
    /\ failed' = [failed EXCEPT ![s] = [at |-> at, why |-> why]]
    /\ shown' = [shown EXCEPT ![s] = @ \cup {"exception"}]

\* The values ML.PREDICT may answer with.
PredValues == {1200000, 77500000}

NoData  == [pred |-> {}, frames |-> {}]
AnyData == [pred |-> PredValues, frames |-> {"empty", "rows"}]

\* What the warehouse can answer to a remote call.
Answers(call) == IF call \in wh_faults THEN {"ok", "transient"} ELSE {"ok"}

\* What it can answer to a query that reads the columns `uses` of the table.
QueryOutcomes(call, uses) ==
    IF uses \subseteq list_columns_of(wh_schema)
    THEN Answers(call)
    ELSE {"missing_column"}

\* No session has loaded the page yet.
RunsIdle ==
    /\ pc = [s \in Sessions |-> "idle"]
    /\ clicked = [s \in Sessions |-> FALSE]
    /\ button_on_page = [s \in Sessions |-> FALSE]
    /\ pred_val = [s \in Sessions |-> Absent]
    /\ last_attempt = [s \in Sessions |-> NoAttempt]
    /\ TABLE = [s \in Sessions |-> NoResult]
    /\ available_cols = [s \in Sessions |-> {}]
    /\ frames = [s \in Sessions |-> [top |-> "none", scatter |-> "none"]]
    /\ x_col = [s \in Sessions |-> "None"]
    /\ calls = [s \in Sessions |-> <<>>]
    /\ shown = [s \in Sessions |-> {}]
    /\ metric = [s \in Sessions |-> None]
    /\ failed = [s \in Sessions |-> NoFailure]

AppIdle ==
    /\ wh_tables = {} /\ wh_schema = {} /\ wh_faults = {} /\ wh_data = NoData /\ now = 0
    /\ cache_tables = NoEntry /\ cache_columns = NoEntry
    /\ RunsIdle

\* Datasets and schemas the script is run against.
AppDatasets == { {"Players", "teams"}, {"player"}, {"teams"} }
SchemaPool  == {"Value_EUR", "Overall", "potential", "club_name", "age"}

MaxNow      == 900
TickSeconds == 300

\* The user loads the page or interacts with it: the script runs from the top.
\* 'Predict value' can be clicked only on a page that holds it.
Rerun(s) ==
    /\ pc[s] = "idle"
    /\ \E click \in BOOLEAN :
          /\ click => button_on_page[s]
          /\ clicked' = [clicked EXCEPT ![s] = click]
    /\ pc' = [pc EXCEPT ![s] = "resolve"]
    /\ TABLE' = [TABLE EXCEPT ![s] = NoResult]
    /\ available_cols' = [available_cols EXCEPT ![s] = {}]
    /\ frames' = [frames EXCEPT ![s] = [top |-> "none", scatter |-> "none"]]
    /\ x_col' = [x_col EXCEPT ![s] = "None"]
    /\ calls' = [calls EXCEPT ![s] = <<>>]
    /\ shown' = [shown EXCEPT ![s] = {}]
    /\ metric' = [metric EXCEPT ![s] = None]
    /\ failed' = [failed EXCEPT ![s] = NoFailure]
    /\ UNCHANGED <<queryVars, whVars, button_on_page, pred_val, last_attempt>>

\* Line 51, resolve_table_ids(PROJECT, DATASET): the memo is read.
ResolveLookup(s) ==
    /\ pc[s] = "resolve"
    /\ IF Fresh(cache_tables, ResolveTtl)
       THEN /\ TABLE' = [TABLE EXCEPT ![s] = cache_tables.value[1]]
            /\ pc' = [pc EXCEPT ![s] = "first_pred"]
            /\ UNCHANGED calls
       ELSE /\ calls' = [calls EXCEPT ![s] = Append(@, "list_tables")]
            /\ pc' = [pc EXCEPT ![s] = "resolve_probe"]
            /\ UNCHANGED TABLE
    /\ UNCHANGED <<queryVars, metric, whVars, clicked, button_on_page, pred_val, last_attempt,
                   available_cols, frames, x_col, shown, failed>>

\* Lines 35-49 on a miss: client.list_tables answers; a result is memoized, an
\* exception is not and ends the run before anything is on the page.
ResolveProbe(s) ==
    /\ pc[s] = "resolve_probe"
    /\ \E answer \in Answers("list_tables") :
          LET r == resolve_table_ids(wh_tables)
          IN  IF answer = "ok" /\ r.status = "ok"
              THEN /\ cache_tables' = Stored(r)
                   /\ TABLE' = [TABLE EXCEPT ![s] = r]
                   /\ pc' = [pc EXCEPT ![s] = "first_pred"]
                   /\ UNCHANGED <<shown, failed, button_on_page>>
              ELSE /\ Abort(s, "list_tables",
                            IF answer = "ok" THEN "not_found" ELSE "transient")
                   /\ button_on_page' = [button_on_page EXCEPT ![s] = FALSE]
                   /\ UNCHANGED <<cache_tables, TABLE>>
    /\ UNCHANGED <<queryVars, metric, wh_tables, wh_schema, wh_faults, wh_data, now, cache_columns, clicked, pred_val,
                   last_attempt, available_cols, frames, x_col, calls>>

PredValKept(old) == old

\* except Exception: st.session_state.pred_val = None
PredValOnFailure(old) == None

\* try: pred_val = predict_value(...) except Exception: pred_val = None; warning
Predict(s, warning) ==
    /\ calls' = [calls EXCEPT ![s] = Append(@, "predict")]
    /\ \E outcome \in Answers("predict"), answer \in wh_data.pred :
          IF outcome # "ok"
          THEN /\ pred_val' = [pred_val EXCEPT ![s] = PredValOnFailure(@)]
               /\ last_attempt' = [last_attempt EXCEPT ![s] = FailedAttempt]
               /\ shown' = [shown EXCEPT ![s] = @ \cup {warning}]
          ELSE /\ pred_val' = [pred_val EXCEPT ![s] = Value(answer)]
               /\ last_attempt' = [last_attempt EXCEPT ![s] = OkAttempt(answer)]
               /\ UNCHANGED shown

FirstRenderAlways(s) == TRUE

\* "pred_val" not in st.session_state
FirstRender(s) == pred_val[s] = Absent

\* Lines 145-154.
FirstPrediction(s) ==
    /\ pc[s] = "first_pred"
    /\ IF FirstRender(s)
       THEN Predict(s, "warning: prediction not available")
       ELSE UNCHANGED <<calls, pred_val, last_attempt, shown>>
    /\ pc' = [pc EXCEPT ![s] = "button"]
    /\ UNCHANGED <<queryVars, metric, whVars, clicked, button_on_page, TABLE, available_cols, frames,
                   x_col, failed>>

\* Lines 156-165.
ButtonPrediction(s) ==
    /\ pc[s] = "button"
    /\ button_on_page' = [button_on_page EXCEPT ![s] = TRUE]
    /\ IF clicked[s]
       THEN Predict(s, "warning: prediction failed")
       ELSE UNCHANGED <<calls, pred_val, last_attempt, shown>>
    /\ pc' = [pc EXCEPT ![s] = "metric"]
    /\ UNCHANGED <<queryVars, metric, whVars, clicked, TABLE, available_cols, frames, x_col, failed>>

\* Lines 168-169.
Metric(s) ==
    /\ pc[s] = "metric"
    /\ IF pred_val[s] # None
       THEN /\ shown' = [shown EXCEPT ![s] = @ \cup {"metric"}]
            /\ metric' = [metric EXCEPT ![s] = pred_val[s]]
       ELSE UNCHANGED <<shown, metric>>
    /\ pc' = [pc EXCEPT ![s] = "columns"]
    /\ UNCHANGED <<queryVars, whVars, clicked, button_on_page, pred_val, last_attempt, TABLE,
                   available_cols, frames, x_col, calls, failed>>

\* Line 174, list_columns(): the memo is read.
ColumnsLookup(s) ==
    /\ pc[s] = "columns"
    /\ IF Fresh(cache_columns, ColumnsTtl)
       THEN /\ available_cols' = [available_cols EXCEPT ![s] = cache_columns.value[1]]
            /\ pc' = [pc EXCEPT ![s] = "buckets"]
            /\ UNCHANGED calls
       ELSE /\ calls' = [calls EXCEPT ![s] = Append(@, "get_table")]
            /\ pc' = [pc EXCEPT ![s] = "columns_probe"]
            /\ UNCHANGED available_cols
    /\ UNCHANGED <<queryVars, metric, whVars, clicked, button_on_page, pred_val, last_attempt, TABLE,
                   frames, x_col, shown, failed>>

\* Lines 65-66 on a miss: client.get_table(TABLE_PLAIN) answers.
ColumnsProbe(s) ==
    /\ pc[s] = "columns_probe"
    /\ \E answer \in Answers("get_table") :
          IF answer = "ok"
          THEN /\ cache_columns' = Stored(list_columns_of(wh_schema))
               /\ available_cols' =
                      [available_cols EXCEPT ![s] = list_columns_of(wh_schema)]
               /\ pc' = [pc EXCEPT ![s] = "buckets"]
               /\ UNCHANGED <<shown, failed>>
          ELSE /\ Abort(s, "get_table", answer)
               /\ UNCHANGED <<cache_columns, available_cols>>
    /\ UNCHANGED <<queryVars, metric, wh_tables, wh_schema, wh_faults, wh_data, now, cache_tables, clicked, button_on_page,
                   pred_val, last_attempt, TABLE, frames, x_col, calls>>

\* Line 204, df_buckets = run_df(sql_buckets): sent whatever the columns are.
Buckets(s) ==
    /\ pc[s] = "buckets"
    /\ calls' = [calls EXCEPT ![s] = Append(@, "buckets")]
    /\ \E answer \in QueryOutcomes("buckets", {"value_eur"}) :
          IF answer = "ok"
          THEN /\ pc' = [pc EXCEPT ![s] = "top"]
               /\ UNCHANGED <<shown, failed>>
          ELSE Abort(s, "buckets", answer)
    /\ UNCHANGED <<queryVars, metric, whVars, clicked, button_on_page, pred_val, last_attempt, TABLE,
                   available_cols, frames, x_col>>

\* Lines 207-277, df_top = run_df(sql_top): one of the three queries is always sent.
Top(s) ==
    /\ pc[s] = "top"
    /\ calls' = [calls EXCEPT ![s] = Append(@, "top")]
    /\ \E answer \in QueryOutcomes("top", sql_top(available_cols[s]).uses) :
          IF answer = "ok"
          THEN /\ \E df \in wh_data.frames :
                      frames' = [frames EXCEPT ![s].top = df]
               /\ pc' = [pc EXCEPT ![s] = "scatter"]
               /\ UNCHANGED <<shown, failed>>
          ELSE /\ Abort(s, "top", answer)
               /\ UNCHANGED frames
    /\ UNCHANGED <<queryVars, metric, whVars, clicked, button_on_page, pred_val, last_attempt, TABLE,
                   available_cols, x_col>>

scatter_x_col_potential_first(cols) ==
    IF "potential" \in cols THEN "potential"
    ELSE IF "overall" \in cols THEN "overall" ELSE "None"

\* Line 280.
scatter_x_col(cols) ==
    IF "overall" \in cols THEN "overall"
    ELSE IF "potential" \in cols THEN "potential" ELSE "None"

\* Lines 280-290: df_scatter stays the empty frame when there is no score column.
Scatter(s) ==
    /\ pc[s] = "scatter"
    /\ LET x == scatter_x_col(available_cols[s])
       IN  /\ x_col' = [x_col EXCEPT ![s] = x]
           /\ IF x # "None"
              THEN /\ calls' = [calls EXCEPT ![s] = Append(@, "scatter")]
                   /\ \E answer \in QueryOutcomes("scatter", {x, "value_eur"}) :
                         IF answer = "ok"
                         THEN /\ \E df \in wh_data.frames :
                                    frames' = [frames EXCEPT ![s].scatter = df]
                              /\ pc' = [pc EXCEPT ![s] = "layout"]
                              /\ UNCHANGED <<shown, failed>>
                         ELSE /\ Abort(s, "scatter", answer)
                              /\ UNCHANGED frames
              ELSE /\ frames' = [frames EXCEPT ![s].scatter = "empty"]
                   /\ pc' = [pc EXCEPT ![s] = "layout"]
                   /\ UNCHANGED <<calls, shown, failed>>
    /\ UNCHANGED <<queryVars, metric, whVars, clicked, button_on_page, pred_val, last_attempt, TABLE,
                   available_cols>>

\* Lines 293-315: the charts, or the message that stands for an empty frame.
Layout(s) ==
    /\ pc[s] = "layout"
    /\ shown' = [shown EXCEPT ![s] =
                    @ \cup {"bucket chart"}
                      \cup (IF frames[s].top = "empty"
                            THEN {"info: top chart skipped"} ELSE {"top chart"})
                      \cup (IF frames[s].scatter = "empty"
                            THEN {"info: missing both, scatter skipped"}
                            ELSE {"scatter chart"})
                      \cup {"done"}]
    /\ pc' = [pc EXCEPT ![s] = "idle"]
    /\ UNCHANGED <<queryVars, metric, whVars, clicked, button_on_page, pred_val, last_attempt, TABLE,
                   available_cols, frames, x_col, calls, failed>>

\* Time passes.
Tick ==
    /\ now + TickSeconds <= MaxNow
    /\ now' = now + TickSeconds
    /\ UNCHANGED <<queryVars, wh_tables, wh_schema, wh_faults, wh_data, cache_tables,
                   cache_columns,
                   runVars>>

Step(s) ==
    \/ Rerun(s)
    \/ ResolveLookup(s)
    \/ ResolveProbe(s)
    \/ FirstPrediction(s)
    \/ ButtonPrediction(s)
    \/ Metric(s)
    \/ ColumnsLookup(s)
    \/ ColumnsProbe(s)
    \/ Buckets(s)
    \/ Top(s)
    \/ Scatter(s)
    \/ Layout(s)

Init ==
    /\ wh_tables \in AppDatasets
    /\ wh_schema \in SUBSET SchemaPool
    /\ wh_faults = SchemaProbes \cup Queries
    /\ wh_data = AnyData
    /\ now = 0
    /\ cache_tables = NoEntry /\ cache_columns = NoEntry
    /\ RunsIdle
    /\ RtIdle /\ BkIdle /\ TopIdle

\* One session.
Next == Step("s1") \/ Tick

Spec == Init /\ [][Next]_vars

\* Two sessions of the one process, sharing the two memos.
InitCache ==
    /\ wh_tables = {"player"}
    /\ wh_schema = SchemaPool
    /\ wh_faults = SchemaProbes
    /\ wh_data = [pred |-> {77500000}, frames |-> {"rows"}]
    /\ now = 0
    /\ cache_tables = NoEntry /\ cache_columns = NoEntry
    /\ RunsIdle
    /\ RtIdle /\ BkIdle /\ TopIdle

NextCache == (\E s \in Sessions : Step(s)) \/ Tick

SpecCache == InitCache /\ [][NextCache]_vars

(***************************************************************************)
(* Properties of a run of the script.                                      *)
(***************************************************************************)
Sent(s, call) == \E i \in 1..Len(calls[s]) : calls[s][i] = call

TimesSent(s, call) == Cardinality({i \in 1..Len(calls[s]) : calls[s][i] = call})

Completed(s) == "done" \in shown[s]

PastScatter(s) == frames[s].scatter # "none"

\* C5: the scatter step takes 'overall' as the score when it is available, else
\* 'potential' when it is; when neither is, it sends no scatter query, and the run
\* ends with the 'missing both' message in place of the chart, not with an error.
C5_ScatterScoreColumn ==
    \A s \in Sessions :
        /\ Sent(s, "scatter") =>
               \/ x_col[s] = "overall" /\ "overall" \in available_cols[s]
               \/ /\ x_col[s] = "potential"
                  /\ "potential" \in available_cols[s]
                  /\ "overall" \notin available_cols[s]
        /\ PastScatter(s) =>
               /\ "overall" \in available_cols[s] =>
                      x_col[s] = "overall" /\ Sent(s, "scatter")
               /\ ("overall" \notin available_cols[s]
                      /\ "potential" \in available_cols[s]) =>
                      x_col[s] = "potential" /\ Sent(s, "scatter")
               /\ ("overall" \notin available_cols[s]
                      /\ "potential" \notin available_cols[s]) =>
                      /\ x_col[s] = "None"
                      /\ ~Sent(s, "scatter")
                      /\ failed[s] = NoFailure
                      /\ "exception" \notin shown[s]
                      /\ pc[s] = "idle" =>
                             /\ Completed(s)
                             /\ "info: missing both, scatter skipped" \in shown[s]
                             /\ "scatter chart" \notin shown[s]

\* A run over a table with value_eur and age only has ended: no scatter query was
\* sent and the page holds the message.
C5_WitnessScatterSkipped ==
    /\ wh_schema = {"Value_EUR", "age"}
    /\ pc["s1"] = "idle" /\ Completed("s1")
    /\ calls["s1"] = <<"list_tables", "predict", "get_table", "buckets", "top">>
    /\ "info: missing both, scatter skipped" \in shown["s1"]

Warnings == {"warning: prediction not available", "warning: prediction failed"}

PredictionFailedIn(s) ==
    /\ Len(calls'[s]) = Len(calls[s]) + 1
    /\ calls'[s][Len(calls'[s])] = "predict"
    /\ last_attempt'[s] = FailedAttempt

\* C6: a failed prediction query, on the first render or after a click, leaves
\* pred_val None and a warning on the page, and the run goes on to the next
\* statement; the metric is on the page only if the session's most recent
\* prediction attempt succeeded, and it holds that attempt's value.
C6_FailedPredictionClearsValue ==
    /\ [](\A s \in Sessions :
            /\ last_attempt[s].is = "fail" => pred_val[s] = None
            /\ last_attempt[s].is = "ok" => pred_val[s] = Value(last_attempt[s].v)
            /\ "metric" \in shown[s] =>
                   /\ last_attempt[s].is = "ok"
                   /\ metric[s] = Value(last_attempt[s].v))
    /\ [][\A s \in Sessions :
            PredictionFailedIn(s) =>
                /\ pred_val'[s] = None
                /\ shown'[s] \cap Warnings # {}
                /\ "exception" \notin shown'[s]
                /\ pc'[s] \in {"button", "metric"}]_vars

\* After a click the prediction failed; the run went on and ended with the charts,
\* a warning and no metric on the page.
C6_WitnessFailedClickRunCompletes ==
    /\ pc["s1"] = "idle" /\ Completed("s1") /\ clicked["s1"]
    /\ "warning: prediction failed" \in shown["s1"]
    /\ pred_val["s1"] = None
    /\ "metric" \notin shown["s1"]
    /\ {"bucket chart", "top chart", "scatter chart"} \subseteq shown["s1"]

\* The columns each chart's query reads.
BucketChartColumns(cols) == "value_eur" \in cols
TopChartColumns(cols) == "value_eur" \in cols /\ {"club_name", "age"} \cap cols # {}
ScatterChartColumns(cols) == "value_eur" \in cols /\ {"overall", "potential"} \cap cols # {}

\* C7: no run ends on an exception because a column is absent; a run that no
\* other failure ended has queried every chart whose columns are present, and
\* holds that chart or, for a chart whose columns are absent, a message.
C7_AbsentColumnSkipsOnlyItsChart ==
    \A s \in Sessions :
        LET cols == list_columns_of(wh_schema)
        IN  /\ failed[s].why # "missing_column"
            /\ (pc[s] = "idle" /\ shown[s] # {} /\ failed[s] = NoFailure) =>
                   /\ BucketChartColumns(cols) => Sent(s, "buckets")
                   /\ TopChartColumns(cols) => Sent(s, "top")
                   /\ ScatterChartColumns(cols) => Sent(s, "scatter")

Charts == {"bucket chart", "top chart", "scatter chart", "info: top chart skipped",
           "info: missing both, scatter skipped"}

\* C8 as claimed: in a run whose schema probing failed, no prediction query and
\* no analytics query was sent.
C8_NoQueryWhenProbeFails ==
    \A s \in Sessions :
        failed[s].at \in SchemaProbes => \A q \in Queries : ~Sent(s, q)

\* C8, amended: a failed schema probe ends the run with the exception on the
\* page; when resolve_table_ids failed no query at all was sent and nothing else
\* is on the page; when list_columns failed no analytics query was sent and no
\* chart is on the page, the run's prediction query having come before it.
C8_ProbeFailureEndsRun ==
    \A s \in Sessions :
        /\ failed[s].at = "list_tables" =>
               /\ pc[s] = "idle"
               /\ calls[s] = <<"list_tables">>
               /\ shown[s] = {"exception"}
        /\ failed[s].at = "get_table" =>
               /\ pc[s] = "idle"
               /\ "exception" \in shown[s]
               /\ \A q \in AnalyticsQueries : ~Sent(s, q)
               /\ shown[s] \cap Charts = {}
               /\ ~Completed(s)

\* list_columns failed in a run that had already sent its prediction query.
C8_WitnessPredictionBeforeColumnsFailure ==
    /\ failed["s1"].at = "get_table"
    /\ calls["s1"] = <<"list_tables", "predict", "get_table">>
    /\ "metric" \in shown["s1"]

PlaceInScript(call) == CHOOSE i \in 1..Len(ScriptOrder) : ScriptOrder[i] = call

\* C9: the remote calls of one run are made one after the other in the order of
\* the script, each at most once, whatever failed: at most one prediction query
\* and at most four analytics queries; between runs no call is made.
C9_OneAttemptPerTrigger ==
    /\ [](\A s \in Sessions :
            /\ \A i \in 1..(Len(calls[s]) - 1) :
                   PlaceInScript(calls[s][i]) < PlaceInScript(calls[s][i + 1])
            /\ TimesSent(s, "predict") <= 1
            /\ Cardinality({i \in 1..Len(calls[s]) :
                               calls[s][i] \in AnalyticsQueries}) <= 4
            /\ \A c \in SchemaProbes \cup Queries : TimesSent(s, c) <= 1)
    /\ [][\A s \in Sessions :
            Len(calls'[s]) > Len(calls[s]) =>
                /\ pc[s] # "idle"
                /\ Len(calls'[s]) = Len(calls[s]) + 1]_vars

\* A click, with both memo entries fresh: the run sent one prediction query,
\* which failed, did not send it again, and went through the rest of the chain.
C9_WitnessFailedTwiceNoRetry ==
    /\ pc["s1"] = "idle" /\ clicked["s1"]
    /\ "warning: prediction failed" \in shown["s1"]
    /\ calls["s1"] = <<"predict", "buckets", "top", "scatter">>

\* What an access at position `at` of the script does, given the memo entry and
\* the time-to-live in seconds that the claim states for it.
MemoAccess(s, at, entry, ttl, call, hit, miss) ==
    (pc[s] = at /\ pc'[s] # at) =>
        IF entry.valid /\ now < entry.at + ttl
        THEN /\ calls'[s] = calls[s]
             /\ pc'[s] = hit
        ELSE /\ calls'[s] = Append(calls[s], call)
             /\ pc'[s] = miss

\* C10: an access to resolve_table_ids within 600 s of the entry's storing, or to
\* list_columns within 300 s, makes no remote call and returns the entry; an
\* access without an entry or after its expiry makes exactly one; nothing but a
\* session's own probe refreshes an entry, the passing of time triggers no call;
\* and with two sessions probing at once each entry, once stored, holds what the
\* probe returns for the dataset, stamped no later than the clock.
C10_MemoizedProbes ==
    /\ [](/\ cache_tables.valid =>
                /\ cache_tables.value = <<resolve_table_ids(wh_tables)>>
                /\ cache_tables.value[1].status = "ok"
                /\ cache_tables.at <= now
          /\ cache_columns.valid =>
                /\ cache_columns.value = <<list_columns_of(wh_schema)>>
                /\ cache_columns.at <= now
          /\ \A s \in Sessions :
                /\ TimesSent(s, "list_tables") <= 1
                /\ TimesSent(s, "get_table") <= 1)
    /\ [][\A s \in Sessions :
            /\ MemoAccess(s, "resolve", cache_tables, 600, "list_tables",
                          "first_pred", "resolve_probe")
            /\ (pc[s] = "resolve" /\ pc'[s] = "first_pred") =>
                   TABLE'[s] = cache_tables.value[1]
            /\ MemoAccess(s, "columns", cache_columns, 300, "get_table",
                          "buckets", "columns_probe")
            /\ (pc[s] = "columns" /\ pc'[s] = "buckets") =>
                   available_cols'[s] = cache_columns.value[1]]_vars
    /\ [][(cache_tables' # cache_tables \/ cache_columns' # cache_columns) =>
            \E s \in Sessions :
                /\ pc[s] \in {"resolve_probe", "columns_probe"}
                /\ pc'[s] # pc[s]]_vars
    /\ [][now' # now =>
            /\ cache_tables' = cache_tables /\ cache_columns' = cache_columns
            /\ calls' = calls]_vars

\* Both sessions found the table entry expired and are probing at the same time.
C10_WitnessDuplicateProbe ==
    /\ pc["s1"] = "resolve_probe" /\ pc["s2"] = "resolve_probe"
    /\ cache_tables.valid
    /\ now >= cache_tables.at + 600

(***************************************************************************)
(* resolve_table_ids applied to every dataset of the pool.                 *)
(***************************************************************************)
InitResolve ==
    /\ ds_tables \in SUBSET TableIdPool
    /\ rt_out = NoResult
    /\ BkIdle /\ TopIdle /\ AppIdle

CallResolve ==
    /\ rt_out.status = "none"
    /\ rt_out' = resolve_table_ids(ds_tables)
    /\ UNCHANGED ds_tables

NextResolve == CallResolve /\ UNCHANGED <<bkVars, topVars, appVars>>

SpecResolve == InitResolve /\ [][NextResolve]_vars

\* C1: resolve_table_ids returns the accepted variant whose lower-cased id is
\* present in the dataset, 'players' when both are; when neither is present it
\* returns no table and fails with an error that lists, sorted, the (lower-cased)
\* ids of exactly the tables the dataset holds.
C1_ResolvePicksPresentVariant ==
    rt_out.status # "none" =>
        LET hasPlayers == \E t \in ds_tables : Lower(t) = "players"
            hasPlayer  == \E t \in ds_tables : Lower(t) = "player"
        IN  /\ hasPlayers =>
                /\ rt_out.status = "ok"
                /\ rt_out.short = "players"
                /\ rt_out.plain = <<PROJECT, DATASET, "players">>
            /\ (~hasPlayers /\ hasPlayer) =>
                /\ rt_out.status = "ok"
                /\ rt_out.short = "player"
                /\ rt_out.plain = <<PROJECT, DATASET, "player">>
            /\ (~hasPlayers /\ ~hasPlayer) =>
                /\ rt_out.status = "error"
                /\ rt_out.short = "None" /\ rt_out.plain = <<>>
                /\ {rt_out.found[i] : i \in 1..Len(rt_out.found)}
                       = {Lower(t) : t \in ds_tables}
                /\ Len(rt_out.found) = Cardinality({Lower(t) : t \in ds_tables})
                /\ \A i \in 1..(Len(rt_out.found) - 1) :
                       LexRank(rt_out.found[i]) < LexRank(rt_out.found[i + 1])

\* Both variants are in the dataset (one of them in upper case) and the call chose.
C1_WitnessBoth ==
    /\ {"players", "PLAYER"} \subseteq ds_tables
    /\ rt_out.status = "ok"

(***************************************************************************)
(* The Top-10 query built for every set of columns and run on every table. *)
(***************************************************************************)
InitTop ==
    /\ top_cols \in SUBSET TopColumnPool
    /\ top_table \in TopTables
    /\ top_tie \in {"asc", "desc"}
    /\ df_top = TopNotRun
    /\ RtIdle /\ BkIdle /\ AppIdle

\* df_top = run_df(sql_top)
RunTop ==
    /\ df_top.status = "not run"
    /\ df_top' = RunTopQuery(sql_top(top_cols), top_cols, top_table, top_tie)
    /\ UNCHANGED <<top_cols, top_table, top_tie>>

NextTop == RunTop /\ UNCHANGED <<rtVars, bkVars, appVars>>

SpecTop == InitTop /\ [][NextTop]_vars

\* C2: the query groups by the first available of nationality_name, nationality,
\* club_name, league_name, and by the age bracket when none is available; its
\* minimum group size is 30 rows for a nationality dimension, 20 for club_name or
\* league_name and none for the age bracket, and no returned group is smaller.
C2_DimensionPriority ==
    df_top.status # "not run" =>
        LET q == df_top.sql
            expected ==
                IF "nationality_name" \in top_cols THEN <<"nationality_name", 30>>
                ELSE IF "nationality" \in top_cols THEN <<"nationality", 30>>
                ELSE IF "club_name" \in top_cols   THEN <<"club_name", 20>>
                ELSE IF "league_name" \in top_cols THEN <<"league_name", 20>>
                ELSE <<"age_group", 0>>
        IN  /\ q.grp = expected[1]
            /\ q.having = expected[2]
            /\ \A j \in 1..Len(df_top.rows) :
                   /\ df_top.rows[j].num_players >= expected[2]
                   /\ (expected[1] # "age_group" =>
                           df_top.rows[j].grp[1] = expected[1])

\* Only club_name and league_name of the four dimensions are available, and the
\* query returned groups of club_name, one of them of exactly 20 rows.
C2_WitnessClubFallback ==
    /\ top_cols = {"club_name", "league_name", "age", "value_eur"}
    /\ df_top.status = "ok"
    /\ df_top.sql.grp = "club_name"
    /\ \E j \in 1..Len(df_top.rows) : df_top.rows[j].num_players = 20

RowsByAvgDesc(rows) ==
    \A j \in 1..(Len(rows) - 1) : ~AvgGreater(rows[j + 1], rows[j])

\* C3 as claimed: whichever dimension is selected, the returned groups are in
\* descending order of their average value and at most 10.
C3_AlwaysByAvgDesc ==
    df_top.status = "ok" =>
        /\ RowsByAvgDesc(df_top.rows)
        /\ Len(df_top.rows) <= 10

\* The groups of the table that pass the WHERE and the HAVING of a dimension
\* query, from the table itself: key -> <<rows, sum of value_eur>>.
DimKeys == {top_table[i].key[1] :
               i \in {x \in 1..Len(top_table) :
                         top_table[x].key # NULL /\ top_table[x].value_eur # NULL}}

DimKinds(k) == {i \in 1..Len(top_table) :
                   /\ top_table[i].key = <<k>>
                   /\ top_table[i].value_eur # NULL}

DimRows(k) == CountRows(DimKinds(k), top_table)
DimSum(k)  == SumValues(DimKinds(k), top_table)

\* C3, amended: with a nationality or club/league dimension the result is the
\* (at most) 10 qualifying groups of highest average value, in descending order
\* of it; with the age bracket the result is every bracket, in the fixed order
\* <20, 20-22, 23-25, 26-28, 29-31, then 32+ and Unknown, not in order of value.
C3_AvgDescForDimsAgeOrderForBrackets ==
    df_top.status = "ok" =>
        LET rows == df_top.rows
            q    == df_top.sql
        IN  IF q.grp = "age_group"
            THEN /\ \A j \in 1..(Len(rows) - 1) :
                        AgeOrderRank(rows[j].grp) <= AgeOrderRank(rows[j + 1].grp)
                 /\ {rows[j].grp : j \in 1..Len(rows)}
                        = {age_group(top_table[i].age) :
                              i \in {x \in 1..Len(top_table) :
                                        top_table[x].value_eur # NULL}}
                 /\ Len(rows) = Cardinality({rows[j].grp : j \in 1..Len(rows)})
                 /\ Len(rows) <= 10
            ELSE LET qual == {k \in DimKeys : DimRows(k) >= q.having}
                 IN  /\ RowsByAvgDesc(rows)
                     /\ Len(rows) = IF Cardinality(qual) < 10
                                    THEN Cardinality(qual) ELSE 10
                     /\ \A j \in 1..Len(rows) :
                            /\ rows[j].id \in qual
                            /\ rows[j].num_players = DimRows(rows[j].id)
                            /\ rows[j].sum_value = DimSum(rows[j].id)
                     /\ \A j1, j2 \in 1..Len(rows) :
                            j1 # j2 => rows[j1].id # rows[j2].id
                     /\ \A k \in qual :
                            (\A j \in 1..Len(rows) : rows[j].id # k) =>
                                \A j \in 1..Len(rows) :
                                    DimSum(k) * rows[j].num_players
                                        <= rows[j].sum_value * DimRows(k)

\* A nationality query over more than 10 qualifying groups returned 10 of them,
\* whose averages are not all equal.
C3_WitnessLimitReached ==
    /\ df_top.status = "ok"
    /\ df_top.sql.grp = "nationality"
    /\ Cardinality({k \in DimKeys : DimRows(k) >= 30}) > 10
    /\ Len(df_top.rows) = 10
    /\ AvgGreater(df_top.rows[1], df_top.rows[10])

(***************************************************************************)
(* The bucket query applied to every small table.                          *)
(***************************************************************************)
InitBuckets ==
    /\ bk_rows \in RowSeqs(MaxBucketRows)
    /\ df_buckets = NotRun
    /\ RtIdle /\ TopIdle /\ AppIdle

RunBuckets ==
    /\ df_buckets.status = "not run"
    /\ df_buckets' = Ran(sql_buckets(bk_rows))
    /\ UNCHANGED bk_rows

NextBuckets == RunBuckets /\ UNCHANGED <<rtVars, topVars, appVars>>

SpecBuckets == InitBuckets /\ [][NextBuckets]_vars

\* The six buckets as half-open ranges [lo, hi); <<>> is no bound on that side.
BucketRanges ==
    << [label |-> "<1M",     lo |-> <<>>,         hi |-> <<1000000>>],
       [label |-> "1M-5M",   lo |-> <<1000000>>,  hi |-> <<5000000>>],
       [label |-> "5M-10M",  lo |-> <<5000000>>,  hi |-> <<10000000>>],
       [label |-> "10M-20M", lo |-> <<10000000>>, hi |-> <<20000000>>],
       [label |-> "20M-50M", lo |-> <<20000000>>, hi |-> <<50000000>>],
       [label |-> ">=50M",   lo |-> <<50000000>>, hi |-> <<>>] >>

InRange(v, r) ==
    /\ (r.lo # <<>> => v >= r.lo[1])
    /\ (r.hi # <<>> => v < r.hi[1])

RowsInRange(r) ==
    {i \in 1..Len(bk_rows) : bk_rows[i] # NULL /\ InRange(Num(bk_rows[i]), r)}

\* C4: every non-null value_eur lies in exactly one of the six half-open ranges
\* and is counted in that range's bucket and in no other (a boundary value in the
\* higher bucket); the result lists the non-empty buckets in the fixed ascending
\* order of the thresholds, whatever their counts.
C4_BucketsTotalDisjointOrdered ==
    df_buckets.status = "ok" =>
        /\ \A i \in 1..Len(bk_rows) :
               bk_rows[i] # NULL =>
                   Cardinality({k \in 1..6 : InRange(Num(bk_rows[i]), BucketRanges[k])}) = 1
        /\ \A k \in 1..6 :
               LET n    == Cardinality(RowsInRange(BucketRanges[k]))
                   hits == {j \in 1..Len(df_buckets.rows) :
                               df_buckets.rows[j].value_bucket = BucketRanges[k].label}
               IN  IF n = 0 THEN hits = {}
                   ELSE /\ Cardinality(hits) = 1
                        /\ \A j \in hits : df_buckets.rows[j].player_count = n
        /\ \A j \in 1..Len(df_buckets.rows) :
               \E k \in 1..6 : df_buckets.rows[j].value_bucket = BucketRanges[k].label
        /\ \A j \in 1..(Len(df_buckets.rows) - 1) :
               \E k1, k2 \in 1..6 :
                   /\ k1 < k2
                   /\ df_buckets.rows[j].value_bucket = BucketRanges[k1].label
                   /\ df_buckets.rows[j + 1].value_bucket = BucketRanges[k2].label

\* The table holds exactly 1,000,000 and exactly 50,000,000 twice: the result is
\* 1M-5M with one row before >=50M with two, which is not the order of the counts.
C4_WitnessBoundaries ==
    /\ Len(bk_rows) = 3
    /\ bk_rows = << <<1000000>>, <<50000000>>, <<50000000>> >>
    /\ df_buckets.rows = << [value_bucket |-> "1M-5M", player_count |-> 1],
                            [value_bucket |-> ">=50M", player_count |-> 2] >>

=============================================================================
